---- MODULE Spec2Model ----
(***************************************************************************)
(* Model of the AIS uploader: the progress ledger (ais_upload_progress.json *)
(* and AISUploader.uploaded_files), the coordinator loop                    *)
(* (AISUploader.upload_all_files / upload_file) and the transfer engine     *)
(* (S3Uploader.upload_file, _simple_upload, _multipart_upload,              *)
(* _upload_part with its ThreadPoolExecutor).                               *)
(*                                                                          *)
(* Sizes are byte counts.  A local file's content is identified by its     *)
(* size (the only attribute of the content the program ever looks at), so  *)
(* a remote object and an ETag are represented by the size of the content  *)
(* they were made from.                                                     *)
(***************************************************************************)
EXTENDS Integers, Sequences, FiniteSets, TLC

----------------------------------------------------------------------------
(* Units and program constants *)

MiB == 1024 * 1024

\* uploader.py:232  "if file_size > 100 * 1024 * 1024"
MultipartThreshold == 100 * 1024 * 1024

\* aws.py:28 / aws.py:27, the defaults of S3Config
DefaultPartSizeMB == 100
DefaultMaxConcurrentParts == 10

----------------------------------------------------------------------------
(* Bounds of the model *)

\* upload_all_files invocations explored
MaxRuns == 2
\* modifications of local files by the environment
MaxChanges == 2
\* inputs of the part planner under SpecPlan: file sizes up to MaxPlanMiB MiB
\* (+-1 byte), part sizes 1..MaxPlanPartMB MiB
MaxPlanMiB == 5
MaxPlanPartMB == 3

\* the candidate files, in the order the scan lists them
Files == {"f1", "f2"}
ScanOrder == <<"f1", "f2">>

\* sizes a local file can have: a direct-PUT size and the smallest multipart
\* size (two parts at the default part size: 100 MiB and 1 byte)
Sizes == {10 * MiB, MultipartThreshold + 1}
\* the files when the model starts: one below the multipart threshold, one
\* above it
InitDisk == [f \in Files |-> IF f = "f1" THEN 10 * MiB ELSE MultipartThreshold + 1]
\* configured values of MAX_CONCURRENT_PARTS explored: fewer workers than
\* parts, and the default
ConcurrencyChoices == {1, DefaultMaxConcurrentParts}
\* values of max_files passed to upload_all_files (NoLimit stands for None)
NoLimit == -1
LimitChoices == {NoLimit, 0, 1}

NoFile == -1        \* os.path.exists(path) is False
NoObject == -1      \* the remote store holds no object under the key
NoExit == -1        \* the upload command has not returned
EmptyETag == -1     \* s3_etag = ""

----------------------------------------------------------------------------
(* The progress ledger: ais_uploader.py, AISUploader *)

\* a ledger is a function from a subset of Files to upload records
EmptyLedger == << >>

\* the ledger file as json.load sees it: missing, unparseable, or a ledger
NoLedgerFile == [state |-> "absent", data |-> EmptyLedger]
CorruptLedgerFile == [state |-> "corrupt", data |-> EmptyLedger]
LedgerFile(ledger) == [state |-> "ok", data |-> ledger]
\* the file parses, to a JSON array instead of an object
ListLedgerFile == [state |-> "list", data |-> EmptyLedger]

\* variant: the ledger file is never read back
LoadUploadProgress_Unread(file) == EmptyLedger

\* _load_upload_progress: a missing file and a failed json.load give {};
\* whatever json.load returns is returned as it is.  A JSON array has no
\* keys: its content is EmptyLedger, its type is kept in LoadedType.
LoadUploadProgress(file) ==
    IF file.state = "ok" THEN file.data ELSE EmptyLedger

\* the Python type of the object _load_upload_progress returns
LoadedType(file) == IF file.state = "list" THEN "list" ELSE "dict"

\* _save_upload_progress: open(..., 'w') truncates the file, json.dump then
\* writes the whole in-memory ledger; an exception is logged and swallowed
\*   "ok"          the dump finished
\*   "open_failed" open() raised, the file is as before
\*   "write_failed", "crashed"  the file was truncated and the dump did not
\*                 finish, what is left does not parse
SaveOutcomes == {"ok", "open_failed", "write_failed", "crashed"}
SaveUploadProgress(file, ledger, outcome) ==
    CASE outcome = "ok" -> LedgerFile(ledger)
      [] outcome = "open_failed" -> file
      [] OTHER -> CorruptLedgerFile

\* variant: a record for the path is enough, the size is not compared
IsFileUploaded_AnyRecord(ledger, file_info, disk) ==
    /\ file_info.filepath \in DOMAIN ledger
    /\ disk[file_info.filepath] # NoFile

\* variant: a record is trusted when the local file is gone
IsFileUploaded_MissingFile(ledger, file_info, disk) ==
    IF file_info.filepath \notin DOMAIN ledger THEN FALSE
    ELSE IF disk[file_info.filepath] # NoFile
         THEN disk[file_info.filepath] = ledger[file_info.filepath].size
         ELSE TRUE

\* _is_file_uploaded ("file_path not in self.uploaded_files" is also True of
\* a list, which holds no path)
IsFileUploaded(ledger, file_info, disk) ==
    IF file_info.filepath \notin DOMAIN ledger THEN FALSE
    ELSE IF disk[file_info.filepath] # NoFile
         THEN disk[file_info.filepath] = ledger[file_info.filepath].size
         ELSE FALSE

\* variant: a record that exists for the path is kept
MarkFileUploaded_KeepsFirst(ledger, file_info, s3_etag) ==
    ledger
        @@ (file_info.filepath :> [size |-> file_info.size, s3_etag |-> s3_etag])

\* _mark_file_uploaded, the assignment to self.uploaded_files[file_path]
\* (filename, s3_key, year and month are functions of the path; upload_time
\* is not modelled)
MarkFileUploaded(ledger, file_info, s3_etag) ==
    (file_info.filepath :> [size |-> file_info.size, s3_etag |-> s3_etag])
        @@ ledger

----------------------------------------------------------------------------
(* The scan: uploader.py, AISFileScanner *)

\* _get_file_info: the descriptor of one file, its size read at scan time
FileInfo(f, disk) == [filepath |-> f, size |-> disk[f]]

\* run_scan_phase: the flat list of the descriptors of the files found,
\* in scan order
RunScanPhase(disk) ==
    LET found == SelectSeq(ScanOrder, LAMBDA f : disk[f] # NoFile)
    IN  [k \in 1..Len(found) |-> FileInfo(found[k], disk)]

\* _get_upload_queue: the scanned files the ledger does not report uploaded
GetUploadQueue(scan, ledger, disk) ==
    SelectSeq(scan, LAMBDA d : ~IsFileUploaded(ledger, d, disk))

\* upload_all_files: "if max_files: upload_queue = upload_queue[:max_files]"
LimitQueue(queue, max_files) ==
    IF max_files # NoLimit /\ max_files # 0
    THEN SubSeq(queue, 1, IF max_files < Len(queue) THEN max_files ELSE Len(queue))
    ELSE queue

----------------------------------------------------------------------------
(* The part planner: uploader.py, S3Uploader._multipart_upload *)

\* math.ceil(file_size / part_size)
CeilDiv(a, b) == IF a % b = 0 THEN a \div b ELSE (a \div b) + 1

Min(a, b) == IF a < b THEN a ELSE b

\* part_size = config.part_size_mb * 1024 * 1024
PartSize(mb) == mb * 1024 * 1024

NumParts(file_size, part_size) == CeilDiv(file_size, part_size)

\* variant: end_byte is not clamped to the file size
SubmitParts_Unclamped(file_size, part_size) ==
    [part_num \in 1..NumParts(file_size, part_size) |->
        [part_num   |-> part_num,
         start_byte |-> (part_num - 1) * part_size,
         end_byte   |-> (part_num - 1) * part_size + part_size,
         state      |-> "queued"]]

\* the arguments of the executor.submit calls, one future per part
SubmitParts(file_size, part_size) ==
    [part_num \in 1..NumParts(file_size, part_size) |->
        [part_num   |-> part_num,
         start_byte |-> (part_num - 1) * part_size,
         end_byte   |-> Min((part_num - 1) * part_size + part_size, file_size),
         state      |-> "queued"]]

\* variant: a file of exactly 100 MiB goes to the multipart path
UsesMultipart_AtThreshold(file_size) == file_size >= MultipartThreshold

\* S3Uploader.upload_file: "if file_size > 100 * 1024 * 1024"
UsesMultipart(file_size) == file_size > MultipartThreshold

\* the receipt _upload_part returns
PartInfo(future) ==
    [ETag |-> future.part_num, PartNumber |-> future.part_num,
     Size |-> future.end_byte - future.start_byte]

----------------------------------------------------------------------------
(* State *)

VARIABLES
    \* the environment
    disk,                 \* local file -> its size on disk, or NoFile
    progress_file,        \* the content of ais_upload_progress.json
    remote,               \* local file -> the object committed under its key
    session,              \* the requests issued for the file in transfer or
                          \* just transferred: PUTs, and the multipart session
    part_size_mb,         \* config.part_size_mb
    max_concurrent_parts, \* config.max_concurrent_parts
    \* the process: AISUploader and the frame of upload_all_files
    pc,                   \* "down", "ready", "loop", "upload", "multipart"
    uploaded_files,       \* self.uploaded_files
    uploaded_files_type,  \* "dict", or "list" when the ledger file held an array
    upload_queue,         \* upload_queue of upload_all_files, after the limit
    i,                    \* position of the loop in upload_queue, from 1
    count,                \* the counters uploaded, failed, skipped
    result,               \* the dictionary the last upload_all_files returned
    exit_status,          \* the status the upload command returned to the
                          \* shell, NoExit when no command has returned
    report,               \* the dictionary the last get_upload_status or
                          \* validate_uploaded_files returned
    \* the frame of _multipart_upload
    file_size,            \* file_size as read by S3Uploader.upload_file
    futures,              \* part number -> the future submitted for it
    collected,            \* part numbers whose future as_completed has yielded
    parts,                \* the receipts appended so far
    phase,                \* "none", "collect", "exit_return", "exit_raise",
                          \* "exit_interrupt"
    \* observations, read by the properties only
    run,                  \* upload_all_files calls so far
    changes,              \* local modifications so far
    candidates,           \* files the scan of this run produced
    filtered,             \* files _get_upload_queue left out as uploaded
    sent,                 \* files this run issued a transfer request for
    acked,                \* files the store acknowledged as committed, this run
    written,              \* files _mark_file_uploaded ran for, this run
    outcomes,             \* per loop iteration of this run: file and outcome
    clean,                \* every run so far went through its whole pending
                          \* list with no failed file and no failed save
    priorClean,           \* clean, as it was when the current run started
    changed               \* file -> modified locally since its last commit

env == <<disk, progress_file, remote, session, part_size_mb, max_concurrent_parts>>
proc == <<pc, uploaded_files, uploaded_files_type, upload_queue, i, count,
         result, exit_status, report>>
mp == <<file_size, futures, collected, parts, phase>>
obs == <<run, changes, candidates, filtered, sent, acked, written, outcomes,
         clean, priorClean, changed>>
vars == <<env, proc, mp, obs>>

ZeroCount == [uploaded |-> 0, failed |-> 0, skipped |-> 0]
NoResult == [returned |-> FALSE, total_files |-> 0, uploaded |-> 0,
             failed |-> 0, skipped |-> 0]
\* no report was asked for
NoReport == [kind |-> "none"]
NoSession == [state |-> "none", puts |-> 0, creates |-> 0, aborts |-> 0,
              completes |-> 0, Parts |-> << >>]

\* the state of a process that has not been started, and of the frames that
\* are not active
ProcDown ==
    /\ pc = "down" /\ uploaded_files = EmptyLedger /\ upload_queue = << >>
    /\ uploaded_files_type = "dict"
    /\ i = 0 /\ count = ZeroCount /\ result = NoResult
    /\ exit_status = NoExit
    /\ report = NoReport
MpIdle ==
    /\ file_size = 0 /\ futures = << >> /\ collected = {} /\ parts = << >>
    /\ phase = "none"
ObsInit ==
    /\ run = 0 /\ changes = 0 /\ candidates = {} /\ filtered = {} /\ sent = {}
    /\ acked = {} /\ written = {} /\ outcomes = << >>
    /\ clean = TRUE /\ priorClean = TRUE
    /\ changed = [f \in Files |-> FALSE]

\* a fresh installation: local files present, no ledger file, empty bucket
Init ==
    /\ disk = InitDisk
    /\ progress_file = NoLedgerFile
    /\ remote = [f \in Files |-> NoObject]
    /\ session = NoSession
    /\ part_size_mb = DefaultPartSizeMB
    /\ max_concurrent_parts \in ConcurrencyChoices
    /\ ProcDown /\ MpIdle /\ ObsInit

----------------------------------------------------------------------------
(* The environment *)

config == <<part_size_mb, max_concurrent_parts>>

\* a local file is rewritten with another size, or deleted.  The change is
\* explored at the points where its effect can differ: with no process
\* running nothing reads the disk, and _multipart_upload works on the size
\* read before it started, so a change made then is the same as one made right
\* after the next start, or right after the transfer.
LocalChange(f, s) ==
    /\ pc \in {"ready", "loop", "upload"}
    /\ changes < MaxChanges
    /\ s # disk[f]
    /\ disk' = [disk EXCEPT ![f] = s]
    /\ changes' = changes + 1
    /\ changed' = [changed EXCEPT ![f] = TRUE]
    /\ UNCHANGED <<progress_file, remote, session, config, proc, mp, run,
                   candidates, filtered, sent, acked, written, outcomes,
                   clean, priorClean>>

\* the process ends and hands status to the shell: its memory is lost
ProcessEnds(status) ==
    /\ pc' = "down" /\ uploaded_files' = EmptyLedger /\ upload_queue' = << >>
    /\ uploaded_files_type' = "dict"
    /\ i' = 0 /\ count' = ZeroCount /\ result' = NoResult
    /\ exit_status' = status
    /\ report' = NoReport
    /\ file_size' = 0 /\ futures' = << >> /\ collected' = {} /\ parts' = << >>
    /\ phase' = "none"

\* the process stops before the command returns: its memory is lost
ProcessStops == ProcessEnds(NoExit)

\* normal exit after a run, or a crash anywhere; files and the remote store
\* stay as they are
Crash ==
    /\ pc # "down"
    /\ ProcessStops
    /\ candidates' = {} /\ filtered' = {} /\ sent' = {} /\ acked' = {}
    /\ written' = {} /\ outcomes' = << >>
    /\ clean' = (clean /\ pc = "ready")
    /\ session' = NoSession
    /\ UNCHANGED <<disk, progress_file, remote, config, run, changes,
                   priorClean, changed>>

----------------------------------------------------------------------------
(* AISUploader.__init__ *)

Construct ==
    /\ pc = "down"
    /\ pc' = "ready"
    /\ uploaded_files' = LoadUploadProgress(progress_file)
    /\ uploaded_files_type' = LoadedType(progress_file)
    /\ exit_status' = NoExit
    /\ report' = NoReport
    /\ session' = NoSession
    /\ UNCHANGED <<disk, progress_file, remote, config, upload_queue, i, count,
                   result, mp, obs>>

----------------------------------------------------------------------------
(* AISUploader.upload_all_files *)

\* lines 223-247: scan, build the queue, return early or enter the loop
UploadAllFiles(max_files) ==
    /\ pc = "ready"
    /\ run < MaxRuns
    /\ LET scan == RunScanPhase(disk)
           pending == GetUploadQueue(scan, uploaded_files, disk)
           queue == LimitQueue(pending, max_files)
       IN  /\ candidates' = {scan[k].filepath : k \in DOMAIN scan}
           /\ filtered' = {scan[k].filepath : k \in DOMAIN scan}
                              \ {pending[k].filepath : k \in DOMAIN pending}
           /\ clean' = (clean /\ Len(queue) = Len(pending))
           /\ IF pending = << >>
              THEN /\ pc' = "ready"
                   /\ upload_queue' = << >>
                   /\ i' = 0
                   /\ result' = [returned |-> TRUE, total_files |-> 0,
                                 uploaded |-> 0, failed |-> 0, skipped |-> 0]
              ELSE /\ pc' = "loop"
                   /\ upload_queue' = queue
                   /\ i' = 1
                   /\ result' = NoResult
    /\ count' = ZeroCount
    /\ run' = run + 1
    /\ priorClean' = clean
    /\ sent' = {} /\ acked' = {} /\ written' = {} /\ outcomes' = << >>
    /\ session' = NoSession
    /\ UNCHANGED <<disk, progress_file, remote, config, uploaded_files,
                   uploaded_files_type, exit_status, report, mp, changes, changed>>

\* the end of one loop iteration: count it, then go to the next file or
\* return the counters (lines 262-288)
EndIteration(kind) ==
    LET c == [count EXCEPT ![kind] = @ + 1]
    IN  /\ count' = c
        /\ outcomes' = Append(outcomes, [filepath |-> upload_queue[i].filepath,
                                         outcome |-> kind])
        /\ IF i < Len(upload_queue)
           THEN /\ pc' = "loop" /\ i' = i + 1 /\ result' = result
           ELSE /\ pc' = "ready" /\ i' = 0
                /\ result' = [returned |-> TRUE,
                              total_files |-> Len(upload_queue),
                              uploaded |-> c.uploaded, failed |-> c.failed,
                              skipped |-> c.skipped]
        /\ upload_queue' = upload_queue

\* line 255: the file is looked up in the ledger again
LoopCheck ==
    /\ pc = "loop"
    /\ IF IsFileUploaded(uploaded_files, upload_queue[i], disk)
       THEN /\ EndIteration("skipped")
       ELSE /\ pc' = "upload"
            /\ UNCHANGED <<upload_queue, i, count, result, outcomes>>
    /\ session' = NoSession
    /\ UNCHANGED <<disk, progress_file, remote, config, uploaded_files,
                   uploaded_files_type, exit_status, report, mp, run, changes, candidates, filtered, sent, acked, written,
                   clean, priorClean, changed>>

----------------------------------------------------------------------------
(* AISUploader.upload_file *)

\* variant: a failed save takes the record out of memory again and the file
\* is reported failed
RecordSuccess_RollsBack(file_info, content, headOk, save) ==
    LET f == file_info.filepath
        s3_etag == IF headOk THEN content ELSE EmptyETag
        ledger == MarkFileUploaded(uploaded_files, file_info, s3_etag)
    IN  /\ uploaded_files_type = "dict"
        /\ progress_file' = SaveUploadProgress(progress_file, ledger, save)
        /\ written' = written \cup {f}
        /\ uploaded_files_type' = "dict"
        /\ CASE save = "crashed" ->
                  /\ ProcessStops
                  /\ outcomes' = outcomes
                  /\ clean' = FALSE
             [] save = "ok" ->
                  /\ uploaded_files' = ledger
                  /\ exit_status' = exit_status
                  /\ report' = report
                  /\ EndIteration("uploaded")
                  /\ clean' = clean
             [] OTHER ->
                  /\ uploaded_files' = uploaded_files
                  /\ exit_status' = exit_status
                  /\ report' = report
                  /\ EndIteration("failed")
                  /\ clean' = FALSE

\* lines 187-202 after a transfer that returned True: head_object for the
\* ETag, _mark_file_uploaded, _save_upload_progress; then the loop counts the
\* file as uploaded.  content is the object the store now holds.
\* When self.uploaded_files is a list, the assignment at line 111 raises
\* TypeError before anything is saved; line 207 catches it, upload_file
\* returns False and the loop counts the file as failed.
RecordSuccess(file_info, content, headOk, save) ==
    LET f == file_info.filepath
        s3_etag == IF headOk THEN content ELSE EmptyETag
        ledger == MarkFileUploaded(uploaded_files, file_info, s3_etag)
    IN  IF uploaded_files_type = "list"
        THEN /\ save = "ok"
             /\ EndIteration("failed")
             /\ clean' = FALSE
             /\ UNCHANGED <<uploaded_files, uploaded_files_type, exit_status, report,
                            progress_file, written>>
        ELSE /\ progress_file' = SaveUploadProgress(progress_file, ledger, save)
             /\ written' = written \cup {f}
             /\ IF save = "crashed"
                THEN /\ ProcessStops
                     /\ outcomes' = outcomes
                     /\ clean' = FALSE
                ELSE /\ uploaded_files' = ledger
                     /\ uploaded_files_type' = uploaded_files_type
                     /\ exit_status' = exit_status
                     /\ report' = report
                     /\ EndIteration("uploaded")
                     /\ clean' = (clean /\ save = "ok")

\* variant: the record is written before the outcome of the transfer is known
RecordFailure_Marks ==
    LET ledger == MarkFileUploaded(uploaded_files, upload_queue[i], EmptyETag)
    IN  /\ EndIteration("failed")
        /\ clean' = FALSE
        /\ uploaded_files' = ledger
        /\ uploaded_files_type' = uploaded_files_type
        /\ exit_status' = exit_status
        /\ report' = report
        /\ progress_file' = SaveUploadProgress(progress_file, ledger, "ok")
        /\ written' = written

\* variant: a failed file ends the run
RecordFailure_Stops ==
    LET c == [count EXCEPT !.failed = @ + 1]
    IN  /\ count' = c
        /\ outcomes' = Append(outcomes, [filepath |-> upload_queue[i].filepath,
                                         outcome |-> "failed"])
        /\ pc' = "ready" /\ i' = 0
        /\ result' = [returned |-> TRUE, total_files |-> Len(upload_queue),
                      uploaded |-> c.uploaded, failed |-> c.failed,
                      skipped |-> c.skipped]
        /\ upload_queue' = upload_queue
        /\ clean' = FALSE
        /\ UNCHANGED <<uploaded_files, uploaded_files_type, exit_status, report, progress_file, written>>

\* lines 203-209 and 264-265: the transfer returned False or raised
RecordFailure ==
    /\ EndIteration("failed")
    /\ clean' = FALSE
    /\ UNCHANGED <<uploaded_files, uploaded_files_type, exit_status, report, progress_file, written>>

\* lines 163-165: the local file is gone
UploadFileMissing ==
    /\ pc = "upload"
    /\ disk[upload_queue[i].filepath] = NoFile
    /\ RecordFailure
    /\ UNCHANGED <<disk, remote, session, config, mp, run, changes, candidates,
                   filtered, sent, acked, priorClean, changed>>

\* lines 168-177: the ledger reports the file uploaded and unchanged;
\* upload_file returns True without a transfer, the loop counts it uploaded
UploadFileAlready ==
    /\ pc = "upload"
    /\ disk[upload_queue[i].filepath] # NoFile
    /\ IsFileUploaded(uploaded_files, upload_queue[i], disk)
    /\ EndIteration("uploaded")
    /\ UNCHANGED <<env, uploaded_files, uploaded_files_type, exit_status, report, mp, run, changes,
                   candidates, filtered,
                   sent, acked, written, clean, priorClean, changed>>

\* the store commits an object for file f
Commit(f, content) ==
    /\ remote' = [remote EXCEPT ![f] = content]
    /\ acked' = acked \cup {f}
    /\ changed' = [changed EXCEPT ![f] = (disk[f] # content)]

\* variant: _simple_upload reports success although the PUT raised
UploadSimple_AlwaysTrue(putOk, headOk, save) ==
    /\ pc = "upload"
    /\ LET file_info == upload_queue[i]
           f == file_info.filepath
       IN  /\ disk[f] # NoFile
           /\ ~IsFileUploaded(uploaded_files, file_info, disk)
           /\ ~UsesMultipart(disk[f])
           /\ sent' = sent \cup {f}
           /\ session' = [NoSession EXCEPT !.puts = 1]
           /\ IF putOk
              THEN /\ Commit(f, disk[f])
                   /\ RecordSuccess(file_info, disk[f], headOk, save)
              ELSE /\ RecordSuccess(file_info, remote[f], headOk, save)
                   /\ UNCHANGED <<remote, acked, changed>>
    /\ UNCHANGED <<disk, config, mp, run, changes, candidates,
                   filtered, priorClean>>

\* S3Uploader.upload_file with file_size <= 100 MiB: _simple_upload, one
\* direct PUT (client.upload_file), which succeeds or raises
UploadSimple(putOk, headOk, save) ==
    /\ pc = "upload"
    /\ LET file_info == upload_queue[i]
           f == file_info.filepath
       IN  /\ disk[f] # NoFile
           /\ ~IsFileUploaded(uploaded_files, file_info, disk)
           /\ ~UsesMultipart(disk[f])
           /\ sent' = sent \cup {f}
           /\ session' = [NoSession EXCEPT !.puts = 1]
           /\ IF putOk
              THEN /\ Commit(f, disk[f])
                   /\ RecordSuccess(file_info, disk[f], headOk, save)
              ELSE /\ headOk /\ save = "ok"
                   /\ RecordFailure
                   /\ UNCHANGED <<remote, acked, changed>>
    /\ UNCHANGED <<disk, config, mp, run, changes, candidates,
                   filtered, priorClean>>

----------------------------------------------------------------------------
(* S3Uploader._multipart_upload and _upload_part *)

Running == {k \in DOMAIN futures : futures[k].state = "running"}
Queued == {k \in DOMAIN futures : futures[k].state = "queued"}
Finished == {k \in DOMAIN futures : futures[k].state \in {"ok", "failed"}}

MpReset ==
    /\ file_size' = 0 /\ futures' = << >> /\ collected' = {} /\ parts' = << >>
    /\ phase' = "none"

\* one abort_multipart_upload request; when it raises the session stays open
AbortRequest(s, abortOk) ==
    [s EXCEPT !.aborts = @ + 1,
              !.state = IF abortOk THEN "aborted" ELSE @]

\* variant: an abort request is sent although no session was created
MultipartBegin_AbortsUnopened(f, size, createOk) ==
    /\ sent' = sent \cup {f}
    /\ IF createOk
       THEN /\ session' = [NoSession EXCEPT !.state = "open", !.creates = 1]
            /\ file_size' = size
            /\ futures' = SubmitParts(size, PartSize(part_size_mb))
            /\ collected' = {}
            /\ parts' = << >>
            /\ phase' = "collect"
            /\ pc' = "multipart"
            /\ UNCHANGED <<uploaded_files, uploaded_files_type, exit_status, report, upload_queue,
                           i, count, result,
                           progress_file, written, outcomes, clean>>
       ELSE /\ session' = [NoSession EXCEPT !.creates = 1, !.aborts = 1]
            /\ RecordFailure
            /\ UNCHANGED mp
    /\ UNCHANGED <<disk, remote, config, run, changes, candidates, filtered,
                   acked, priorClean, changed>>

\* lines 266-297 for file f of size size: the plan, create_multipart_upload,
\* one future submitted per part.  When create_multipart_upload raises, the
\* handler at 328-339 finds upload_id unbound: no abort request goes out.
MultipartBegin(f, size, createOk) ==
    /\ sent' = sent \cup {f}
    /\ IF createOk
       THEN /\ session' = [NoSession EXCEPT !.state = "open", !.creates = 1]
            /\ file_size' = size
            /\ futures' = SubmitParts(size, PartSize(part_size_mb))
            /\ collected' = {}
            /\ parts' = << >>
            /\ phase' = "collect"
            /\ pc' = "multipart"
            /\ UNCHANGED <<uploaded_files, uploaded_files_type, exit_status, report, upload_queue,
                           i, count, result,
                           progress_file, written, outcomes, clean>>
       ELSE /\ session' = [NoSession EXCEPT !.creates = 1]
            /\ RecordFailure
            /\ UNCHANGED mp
    /\ UNCHANGED <<disk, remote, config, run, changes, candidates, filtered,
                   acked, priorClean, changed>>

\* S3Uploader.upload_file with file_size > 100 MiB
UploadMultipart(createOk) ==
    /\ pc = "upload"
    /\ LET file_info == upload_queue[i]
           f == file_info.filepath
       IN  /\ disk[f] # NoFile
           /\ ~IsFileUploaded(uploaded_files, file_info, disk)
           /\ UsesMultipart(disk[f])
           /\ MultipartBegin(f, disk[f], createOk)

\* variant: every submitted part gets a thread of its own
PartStart_Unbounded ==
    /\ pc = "multipart"
    /\ Queued # {}
    /\ LET k == CHOOSE q \in Queued : \A r \in Queued : q <= r
       IN  futures' = [futures EXCEPT ![k].state = "running"]
    /\ UNCHANGED <<env, proc, file_size, collected, parts, phase, obs>>

\* a pool worker takes the next work item: the executor's queue is FIFO and
\* at most max_workers items run at a time
PartStart ==
    /\ pc = "multipart"
    /\ Queued # {}
    /\ Cardinality(Running) < max_concurrent_parts
    /\ LET k == CHOOSE q \in Queued : \A r \in Queued : q <= r
       IN  futures' = [futures EXCEPT ![k].state = "running"]
    /\ UNCHANGED <<env, proc, file_size, collected, parts, phase, obs>>

\* variant: a part that failed is put back into the executor's queue
PartFinish_Retries(k, ok) ==
    /\ pc = "multipart"
    /\ k \in Running
    /\ futures' = [futures EXCEPT ![k].state = IF ok THEN "ok" ELSE "queued"]
    /\ UNCHANGED <<env, proc, file_size, collected, parts, phase, obs>>

\* _upload_part returns its receipt, or raises (the read of the local file or
\* the upload_part request failed)
PartFinish(k, ok) ==
    /\ pc = "multipart"
    /\ k \in Running
    /\ futures' = [futures EXCEPT ![k].state = IF ok THEN "ok" ELSE "failed"]
    /\ UNCHANGED <<env, proc, file_size, collected, parts, phase, obs>>

\* variant: the ledger is saved after every part
CollectReceipt_SavesProgress(k) ==
    /\ pc = "multipart" /\ phase = "collect"
    /\ k \in Finished \ collected
    /\ futures[k].state = "ok"
    /\ parts' = Append(parts, PartInfo(futures[k]))
    /\ collected' = collected \cup {k}
    /\ progress_file' = SaveUploadProgress(progress_file, uploaded_files, "ok")
    /\ UNCHANGED <<disk, remote, session, config, proc, file_size, futures,
                   phase, obs>>

\* lines 300-306: as_completed yields a finished future, its receipt is
\* appended
CollectReceipt(k) ==
    /\ pc = "multipart" /\ phase = "collect"
    /\ k \in Finished \ collected
    /\ futures[k].state = "ok"
    /\ parts' = Append(parts, PartInfo(futures[k]))
    /\ collected' = collected \cup {k}
    /\ UNCHANGED <<env, proc, file_size, futures, phase, obs>>

\* variant: the failure of a part is swallowed and the collection goes on
CollectFailure_Swallowed(k, abortOk) ==
    /\ pc = "multipart" /\ phase = "collect"
    /\ k \in Finished \ collected
    /\ futures[k].state = "failed"
    /\ abortOk
    /\ collected' = collected \cup {k}
    /\ UNCHANGED <<env, proc, file_size, futures, parts, phase, obs>>

\* lines 307-315: the future raised: abort request, then return False, which
\* first leaves the "with ThreadPoolExecutor" block.  When the abort request
\* raises, the exception leaves the block instead, towards line 328.
CollectFailure(k, abortOk) ==
    /\ pc = "multipart" /\ phase = "collect"
    /\ k \in Finished \ collected
    /\ futures[k].state = "failed"
    /\ collected' = collected \cup {k}
    /\ session' = AbortRequest(session, abortOk)
    /\ phase' = IF abortOk THEN "exit_return" ELSE "exit_raise"
    /\ UNCHANGED <<disk, progress_file, remote, config, proc, file_size,
                   futures, parts, obs>>

\* variant: the executor's exit waits for every receipt to be collected
PoolExit_WaitsForCollection(abortOk) ==
    /\ pc = "multipart" /\ phase \in {"exit_return", "exit_raise"}
    /\ collected = DOMAIN futures
    /\ phase = "exit_return" => abortOk
    /\ session' = IF phase = "exit_raise" THEN AbortRequest(session, abortOk)
                  ELSE session
    /\ MpReset
    /\ RecordFailure
    /\ UNCHANGED <<disk, remote, config, run, changes, candidates, filtered,
                   sent, acked, priorClean, changed>>

\* variant: an abort request that raises ends the process
PoolExit_Escalates(abortOk) ==
    /\ pc = "multipart" /\ phase \in {"exit_return", "exit_raise"}
    /\ Finished = DOMAIN futures
    /\ phase = "exit_return" => abortOk
    /\ IF phase = "exit_raise"
       THEN /\ abortOk
            /\ session' = session
            /\ ProcessStops
            /\ UNCHANGED <<progress_file, written, outcomes, clean>>
       ELSE /\ session' = session
            /\ MpReset
            /\ RecordFailure
    /\ UNCHANGED <<disk, remote, config, run, changes, candidates, filtered,
                   sent, acked, priorClean, changed>>

\* variant: the executor is shut down without waiting for its futures
PoolExit_NoWait(abortOk) ==
    /\ pc = "multipart" /\ phase \in {"exit_return", "exit_raise"}
    /\ phase = "exit_return" => abortOk
    /\ session' = IF phase = "exit_raise" THEN AbortRequest(session, abortOk)
                  ELSE session
    /\ MpReset
    /\ RecordFailure
    /\ UNCHANGED <<disk, remote, config, run, changes, candidates, filtered,
                   sent, acked, priorClean, changed>>

\* the executor's __exit__ is shutdown(wait=True): it returns once every
\* submitted future has run.  Then _multipart_upload returns False, at line
\* 315 or, after the second abort request of lines 331-338, at line 339.
PoolExit(abortOk) ==
    /\ pc = "multipart" /\ phase \in {"exit_return", "exit_raise"}
    /\ Finished = DOMAIN futures
    /\ phase = "exit_return" => abortOk
    /\ session' = IF phase = "exit_raise" THEN AbortRequest(session, abortOk)
                  ELSE session
    /\ MpReset
    /\ RecordFailure
    /\ UNCHANGED <<disk, remote, config, run, changes, candidates, filtered,
                   sent, acked, priorClean, changed>>

\* variant: the complete request is sent as soon as one receipt is in
Complete_Early(completeOk, abortOk, headOk, save) ==
    /\ pc = "multipart" /\ phase = "collect"
    /\ collected # {}
    /\ LET file_info == upload_queue[i]
           f == file_info.filepath
           asked == [session EXCEPT !.completes = @ + 1, !.Parts = parts]
       IN  IF completeOk
           THEN /\ abortOk
                /\ session' = [asked EXCEPT !.state = "completed"]
                /\ Commit(f, file_size)
                /\ MpReset
                /\ RecordSuccess(file_info, file_size, headOk, save)
           ELSE /\ headOk /\ save = "ok"
                /\ session' = AbortRequest(asked, abortOk)
                /\ MpReset
                /\ RecordFailure
                /\ UNCHANGED <<remote, acked, changed>>
    /\ UNCHANGED <<disk, config, run, changes, candidates, filtered, sent,
                   priorClean>>

\* variant: a rejected complete request is not followed by an abort request
Complete_NoAbort(completeOk, abortOk, headOk, save) ==
    /\ pc = "multipart" /\ phase = "collect"
    /\ collected = DOMAIN futures
    /\ LET file_info == upload_queue[i]
           f == file_info.filepath
           asked == [session EXCEPT !.completes = @ + 1, !.Parts = parts]
       IN  IF completeOk
           THEN /\ abortOk
                /\ session' = [asked EXCEPT !.state = "completed"]
                /\ Commit(f, file_size)
                /\ MpReset
                /\ RecordSuccess(file_info, file_size, headOk, save)
           ELSE /\ headOk /\ save = "ok" /\ abortOk
                /\ session' = asked
                /\ MpReset
                /\ RecordFailure
                /\ UNCHANGED <<remote, acked, changed>>
    /\ UNCHANGED <<disk, config, run, changes, candidates, filtered, sent,
                   priorClean>>

\* lines 317-326: every future was collected without a failure;
\* complete_multipart_upload is sent with the receipts as collected.  When it
\* raises, lines 328-339 send an abort request and return False.
Complete(completeOk, abortOk, headOk, save) ==
    /\ pc = "multipart" /\ phase = "collect"
    /\ collected = DOMAIN futures
    /\ LET file_info == upload_queue[i]
           f == file_info.filepath
           asked == [session EXCEPT !.completes = @ + 1, !.Parts = parts]
       IN  IF completeOk
           THEN /\ abortOk
                /\ session' = [asked EXCEPT !.state = "completed"]
                /\ Commit(f, file_size)
                /\ MpReset
                /\ RecordSuccess(file_info, file_size, headOk, save)
           ELSE /\ headOk /\ save = "ok"
                /\ session' = AbortRequest(asked, abortOk)
                /\ MpReset
                /\ RecordFailure
                /\ UNCHANGED <<remote, acked, changed>>
    /\ UNCHANGED <<disk, config, run, changes, candidates, filtered, sent,
                   priorClean>>

----------------------------------------------------------------------------
(* The specification *)

Next ==
    \/ \E f \in Files, s \in Sizes \cup {NoFile} : LocalChange(f, s)
    \/ Crash
    \/ Construct
    \/ \E max_files \in LimitChoices : UploadAllFiles(max_files)
    \/ LoopCheck
    \/ UploadFileMissing
    \/ UploadFileAlready
    \/ \E putOk, headOk \in BOOLEAN, save \in SaveOutcomes :
          UploadSimple(putOk, headOk, save)
    \/ \E createOk \in BOOLEAN : UploadMultipart(createOk)
    \/ PartStart
    \/ \E k \in DOMAIN futures, ok \in BOOLEAN : PartFinish(k, ok)
    \/ \E k \in DOMAIN futures : CollectReceipt(k)
    \/ \E k \in DOMAIN futures, abortOk \in BOOLEAN : CollectFailure(k, abortOk)
    \/ \E abortOk \in BOOLEAN : PoolExit(abortOk)
    \/ \E completeOk, abortOk, headOk \in BOOLEAN, save \in SaveOutcomes :
          Complete(completeOk, abortOk, headOk, save)

Spec == Init /\ [][Next]_vars

----------------------------------------------------------------------------
(* The part planner on its own: _multipart_upload called for one file of   *)
(* any positive size, under any positive configured part size              *)

PlanSizes ==
    {s \in {k * MiB + d : k \in 0..MaxPlanMiB, d \in {-1, 0, 1}} : s > 0}
PlanInputs ==
    (PlanSizes \X (1..MaxPlanPartMB)) \cup {<<350 * MiB, DefaultPartSizeMB>>}

InitPlan ==
    \E inp \in PlanInputs :
        /\ disk = [f \in Files |-> IF f = "f1" THEN inp[1] ELSE NoFile]
        /\ part_size_mb = inp[2]
        /\ upload_queue = <<[filepath |-> "f1", size |-> inp[1]]>>
        /\ progress_file = NoLedgerFile
        /\ remote = [f \in Files |-> NoObject]
        /\ session = NoSession
        /\ max_concurrent_parts = DefaultMaxConcurrentParts
        /\ pc = "plan" /\ uploaded_files = EmptyLedger /\ i = 1
        /\ uploaded_files_type = "dict" /\ exit_status = NoExit /\ report = NoReport
        /\ count = ZeroCount /\ result = NoResult
        /\ MpIdle
        /\ run = 1 /\ changes = 0 /\ candidates = {"f1"} /\ filtered = {}
        /\ sent = {} /\ acked = {} /\ written = {} /\ outcomes = << >>
        /\ clean = TRUE /\ priorClean = TRUE
        /\ changed = [f \in Files |-> FALSE]

\* _multipart_upload(file_path, bucket_name, object_key, file_size, ...)
MultipartUploadCall(createOk) ==
    /\ pc = "plan"
    /\ MultipartBegin(upload_queue[i].filepath, upload_queue[i].size, createOk)

NextPlan == \E createOk \in BOOLEAN : MultipartUploadCall(createOk)

SpecPlan == InitPlan /\ [][NextPlan]_vars

\* _multipart_upload called directly with a file_size that is zero or
\* negative: the empty file, and sizes around negative multiples of 1 MiB
InvalidPlanSizes ==
    {0 - (k * MiB + d) : k \in 0..MaxPlanMiB, d \in {0, 2}}

InitPlanInvalid ==
    \E file_size_arg \in InvalidPlanSizes, mb \in 1..MaxPlanPartMB :
        /\ disk = [f \in Files |-> IF f = "f1" THEN 0 ELSE NoFile]
        /\ part_size_mb = mb
        /\ upload_queue = <<[filepath |-> "f1", size |-> file_size_arg]>>
        /\ progress_file = NoLedgerFile
        /\ remote = [f \in Files |-> NoObject]
        /\ session = NoSession
        /\ max_concurrent_parts = DefaultMaxConcurrentParts
        /\ pc = "plan" /\ uploaded_files = EmptyLedger /\ i = 1
        /\ uploaded_files_type = "dict" /\ exit_status = NoExit /\ report = NoReport
        /\ count = ZeroCount /\ result = NoResult
        /\ MpIdle
        /\ run = 1 /\ changes = 0 /\ candidates = {"f1"} /\ filtered = {}
        /\ sent = {} /\ acked = {} /\ written = {} /\ outcomes = << >>
        /\ clean = TRUE /\ priorClean = TRUE
        /\ changed = [f \in Files |-> FALSE]

\* the call, and the complete request that follows the empty loop over
\* as_completed
NextPlanInvalid ==
    \/ \E createOk \in BOOLEAN : MultipartUploadCall(createOk)
    \/ \E completeOk, abortOk, headOk \in BOOLEAN, save \in SaveOutcomes :
          Complete(completeOk, abortOk, headOk, save)

SpecPlanInvalid == InitPlanInvalid /\ [][NextPlanInvalid]_vars

----------------------------------------------------------------------------
(* The loop of upload_all_files over two files around the multipart        *)
(* threshold, under several pool widths and part sizes                     *)

\* file sizes: exactly 100 MiB, and one byte more
ThresholdSizes == {MultipartThreshold, MultipartThreshold + 1}
\* values of PART_SIZE_MB: 100 MiB + 1 byte is 4 parts at 33, 2 at 100
PartSizeChoices == {33, DefaultPartSizeMB}
\* values of MAX_CONCURRENT_PARTS: one worker, fewer workers than parts, and
\* the default
PoolChoices == {1, 2, DefaultMaxConcurrentParts}

\* upload_all_files has built its queue of two pending files on a fresh
\* installation and enters the loop
InitSession ==
    /\ disk \in [Files -> ThresholdSizes]
    /\ part_size_mb \in PartSizeChoices
    /\ max_concurrent_parts \in PoolChoices
    /\ progress_file = NoLedgerFile
    /\ remote = [f \in Files |-> NoObject]
    /\ session = NoSession
    /\ pc = "loop" /\ i = 1
    /\ upload_queue = RunScanPhase(disk)
    /\ uploaded_files = EmptyLedger /\ uploaded_files_type = "dict"
    /\ exit_status = NoExit
    /\ report = NoReport
    /\ count = ZeroCount /\ result = NoResult
    /\ MpIdle
    /\ run = 1 /\ changes = 0 /\ candidates = Files /\ filtered = {}
    /\ sent = {} /\ acked = {} /\ written = {} /\ outcomes = << >>
    /\ clean = TRUE /\ priorClean = TRUE
    /\ changed = [f \in Files |-> FALSE]

NextSession ==
    \/ LoopCheck
    \/ \E putOk, headOk \in BOOLEAN, save \in SaveOutcomes :
          UploadSimple(putOk, headOk, save)
    \/ \E createOk \in BOOLEAN : UploadMultipart(createOk)
    \/ PartStart
    \/ \E k \in DOMAIN futures, ok \in BOOLEAN : PartFinish(k, ok)
    \/ \E k \in DOMAIN futures : CollectReceipt(k)
    \/ \E k \in DOMAIN futures, abortOk \in BOOLEAN : CollectFailure(k, abortOk)
    \/ \E abortOk \in BOOLEAN : PoolExit(abortOk)
    \/ \E completeOk, abortOk, headOk \in BOOLEAN, save \in SaveOutcomes :
          Complete(completeOk, abortOk, headOk, save)

SpecSession == InitSession /\ [][NextSession]_vars

\* the same loop in a process that is not killed, every request to the
\* store returning and every thread of the pool being scheduled: a step that
\* can be taken is taken.  The save does not end the process here.
NextSessionLive ==
    \/ LoopCheck
    \/ \E putOk, headOk \in BOOLEAN, save \in SaveOutcomes \ {"crashed"} :
          UploadSimple(putOk, headOk, save)
    \/ \E createOk \in BOOLEAN : UploadMultipart(createOk)
    \/ PartStart
    \/ \E k \in DOMAIN futures, ok \in BOOLEAN : PartFinish(k, ok)
    \/ \E k \in DOMAIN futures : CollectReceipt(k)
    \/ \E k \in DOMAIN futures, abortOk \in BOOLEAN : CollectFailure(k, abortOk)
    \/ \E abortOk \in BOOLEAN : PoolExit(abortOk)
    \/ \E completeOk, abortOk, headOk \in BOOLEAN,
          save \in SaveOutcomes \ {"crashed"} :
          Complete(completeOk, abortOk, headOk, save)

SpecSessionLive ==
    InitSession /\ [][NextSessionLive]_vars /\ WF_vars(NextSessionLive)

----------------------------------------------------------------------------
(* A KeyboardInterrupt during a multipart transfer                          *)

\* the interrupt is raised in the main thread while it waits in as_completed
\* (line 300).  It is a BaseException: neither "except Exception" at line 307
\* nor the one at line 328 catches it, so it leaves the "with
\* ThreadPoolExecutor" block.
Interrupt ==
    /\ pc = "multipart" /\ phase = "collect"
    /\ phase' = "exit_interrupt"
    /\ UNCHANGED <<env, proc, file_size, futures, collected, parts, obs>>

\* the executor's __exit__ has waited for every submitted part; the
\* interrupt then passes upload_file (line 207), upload_all_files and the
\* command (ais_cli.py:123), none of which catches it, and the process ends.
\* No abort or complete request was made: the session stays as it is.
InterruptExit ==
    /\ pc = "multipart" /\ phase = "exit_interrupt"
    /\ Finished = DOMAIN futures
    /\ ProcessStops
    /\ candidates' = {} /\ filtered' = {} /\ sent' = {} /\ acked' = {}
    /\ written' = {} /\ outcomes' = << >>
    /\ clean' = FALSE
    /\ UNCHANGED <<env, run, changes, priorClean, changed>>

NextInterrupt ==
    \/ NextSession
    \/ Interrupt
    \/ InterruptExit

SpecInterrupt == InitSession /\ [][NextInterrupt]_vars

----------------------------------------------------------------------------
(* The same loop called with a progress_callback that can raise *)

\* variant: an exception of the callback is swallowed and the collection
\* goes on
CollectCallbackRaises_Swallowed(k, abortOk) ==
    /\ pc = "multipart" /\ phase = "collect"
    /\ k \in Finished \ collected
    /\ futures[k].state = "ok"
    /\ abortOk
    /\ parts' = Append(parts, PartInfo(futures[k]))
    /\ collected' = collected \cup {k}
    /\ UNCHANGED <<env, proc, file_size, futures, phase, obs>>

\* lines 300-315: the receipt of a finished part is appended, then
\* progress_callback raises at line 306, inside the try whose handler sends
\* the abort request and returns False
CollectCallbackRaises(k, abortOk) ==
    /\ pc = "multipart" /\ phase = "collect"
    /\ k \in Finished \ collected
    /\ futures[k].state = "ok"
    /\ parts' = Append(parts, PartInfo(futures[k]))
    /\ collected' = collected \cup {k}
    /\ session' = AbortRequest(session, abortOk)
    /\ phase' = IF abortOk THEN "exit_return" ELSE "exit_raise"
    /\ UNCHANGED <<disk, progress_file, remote, config, proc, file_size,
                   futures, obs>>

NextCallback ==
    \/ NextSession
    \/ \E k \in DOMAIN futures, abortOk \in BOOLEAN :
          CollectCallbackRaises(k, abortOk)

SpecCallback == InitSession /\ [][NextCallback]_vars

----------------------------------------------------------------------------
(* The ledger file as the program finds it at start-up, and a second       *)
(* uploader process working on the same directory, ledger file and bucket  *)

\* both files are sent by direct PUT
SmallDisk == [f \in Files |-> 10 * MiB]

\* what ais_upload_progress.json can hold when a process starts: nothing,
\* text that does not parse, a JSON array, the record of an upload of f1 as
\* it is now, or the record of an upload of f1 when it had another size
LedgerFiles ==
    {NoLedgerFile, CorruptLedgerFile, ListLedgerFile,
     LedgerFile("f1" :> [size |-> 10 * MiB, s3_etag |-> 10 * MiB]),
     LedgerFile("f1" :> [size |-> 5 * MiB, s3_etag |-> 5 * MiB])}

InitLedger ==
    /\ disk = SmallDisk
    /\ progress_file \in LedgerFiles
    /\ remote = [f \in Files |->
                    IF f \in DOMAIN progress_file.data
                    THEN progress_file.data[f].size ELSE NoObject]
    /\ session = NoSession
    /\ part_size_mb = DefaultPartSizeMB
    /\ max_concurrent_parts = DefaultMaxConcurrentParts
    /\ ProcDown /\ MpIdle /\ ObsInit

\* another AISUploader process, started on the ledger file as it is now,
\* uploads f and records it: upload_file, _mark_file_uploaded and a save that
\* succeeds.  A process that loaded a JSON array cannot record.
OtherProcessUploads(f) ==
    /\ pc # "down"
    /\ disk[f] # NoFile
    /\ progress_file.state # "list"
    /\ LET theirs == LoadUploadProgress(progress_file)
           d == FileInfo(f, disk)
       IN  /\ ~IsFileUploaded(theirs, d, disk)
           /\ progress_file' =
                  SaveUploadProgress(progress_file,
                                     MarkFileUploaded(theirs, d, disk[f]), "ok")
    /\ remote' = [remote EXCEPT ![f] = disk[f]]
    /\ changed' = [changed EXCEPT ![f] = FALSE]
    /\ UNCHANGED <<disk, session, config, proc, mp, run, changes, candidates,
                   filtered, sent, acked, written, outcomes, clean, priorClean>>

NextLedger ==
    \/ Crash
    \/ Construct
    \/ \E max_files \in LimitChoices : UploadAllFiles(max_files)
    \/ LoopCheck
    \/ \E putOk, headOk \in BOOLEAN, save \in SaveOutcomes :
          UploadSimple(putOk, headOk, save)
    \/ \E f \in Files : OtherProcessUploads(f)

SpecLedger == InitLedger /\ [][NextLedger]_vars

----------------------------------------------------------------------------
(* The upload command of ais_cli.py, run from the shell by main.py *)

\* list_buckets: answered, refused with a ClientError, or failing below the
\* service (no route, no credentials), which test_connection does not catch
ConnOutcomes == {"ok", "refused", "raises"}

\* head_bucket: answered, 404, or any other error, which bucket_exists
\* raises again
BucketOutcomes == {"exists", "absent", "raises"}

\* variant: the command goes on when the bucket is reported absent
CliSetup_IgnoresBucket(baseOk, conn, bucket) ==
    /\ pc = "down"
    /\ IF baseOk /\ conn = "ok" /\ bucket # "raises"
       THEN Construct
       ELSE /\ exit_status' = 0
       /\ report' = report
            /\ UNCHANGED <<env, pc, uploaded_files, uploaded_files_type,
                           upload_queue, i, count, result, mp, obs>>

\* lines 88-106: the AISUploader is constructed, which raises when the base
\* path does not exist, then the connection and the bucket are tested.  A
\* test that answers False prints and returns; an exception is printed by the
\* handler at line 123, after which the command returns as well.  Click ends
\* the process with status 0 once the command has returned.
CliSetup(baseOk, conn, bucket) ==
    /\ pc = "down"
    /\ IF baseOk /\ conn = "ok" /\ bucket = "exists"
       THEN Construct
       ELSE /\ exit_status' = 0
       /\ report' = report
            /\ UNCHANGED <<env, pc, uploaded_files, uploaded_files_type,
                           upload_queue, i, count, result, mp, obs>>

\* lines 111-113, without --resume: upload_all_files(max_files=max_files),
\* once per command
CliRun(max_files) ==
    /\ ~result.returned
    /\ UploadAllFiles(max_files)

\* variant: --resume passes the --max-files value on
CliResume_AppliesLimit(max_files) ==
    /\ ~result.returned
    /\ UploadAllFiles(max_files)

\* lines 108-110, with --resume: resume_upload(), which calls
\* upload_all_files() with no argument (ais_uploader.py 290-298); the value
\* of --max-files is not used
CliResume(max_files) ==
    /\ ~result.returned
    /\ UploadAllFiles(NoLimit)

\* lines 115-121: the counters are displayed and the command returns
CliExit ==
    /\ pc = "ready" /\ result.returned
    /\ ProcessEnds(0)
    /\ candidates' = {} /\ filtered' = {} /\ sent' = {} /\ acked' = {}
    /\ written' = {} /\ outcomes' = << >>
    /\ session' = NoSession
    /\ UNCHANGED <<disk, progress_file, remote, config, run, changes, clean,
                   priorClean, changed>>

NextCli ==
    \/ \E baseOk \in BOOLEAN, conn \in ConnOutcomes, bucket \in BucketOutcomes :
          CliSetup(baseOk, conn, bucket)
    \/ \E max_files \in LimitChoices : CliResume(max_files)
    \/ \E max_files \in LimitChoices : CliRun(max_files)
    \/ LoopCheck
    \/ \E putOk, headOk \in BOOLEAN, save \in SaveOutcomes :
          UploadSimple(putOk, headOk, save)
    \/ CliExit

SpecCli == InitLedger /\ [][NextCli]_vars

----------------------------------------------------------------------------
(* get_upload_status and validate_uploaded_files, on a ledger as it was    *)
(* loaded from the ledger file                                             *)

\* the record _mark_file_uploaded writes (lines 111-119), with every field;
\* the file name and the key stand for the path they are made from
UploadRecord(f, size, month) ==
    [filename |-> f, s3_key |-> f, size |-> size, upload_time |-> "t",
     s3_etag |-> size, year |-> "2024", month |-> month]

\* a record of the ledger file that lacks a field
Without(info, field) == [k \in DOMAIN info \ {field} |-> info[k]]

\* the records a loaded ledger can hold for f: written by this program, in
\* either of two months and with either of two sizes, or lacking a field
StatusRecords(f) ==
    {UploadRecord(f, size, month) : size \in {10 * MiB, 5 * MiB},
                                    month \in {"01", "02"}}
        \cup {Without(UploadRecord(f, 10 * MiB, "01"), field) :
                  field \in {"s3_key", "year", "filename"}}

StatusLedgers ==
    UNION {{ledger \in [D -> UNION {StatusRecords(f) : f \in D}] :
               \A f \in D : ledger[f] \in StatusRecords(f)} :
           D \in SUBSET Files}

\* info.get(field, default)
Get(info, field, default) ==
    IF field \in DOMAIN info THEN info[field] ELSE default

\* variant: a record replaces the list of its period
AddToPeriod_Overwrites(by_period, info) ==
    LET period == <<Get(info, "year", "unknown"), Get(info, "month", "unknown")>>
        entry == [filename |-> info.filename, size |-> info.size,
                  upload_time |-> info.upload_time]
    IN  IF period \in DOMAIN by_period
        THEN [by_period EXCEPT ![period] = <<entry>>]
        ELSE by_period @@ (period :> <<entry>>)

\* lines 311-325, one pass of the loop: the entry of a record is appended to
\* by_period[year][month], which is created when it is not there
AddToPeriod(by_period, info) ==
    LET period == <<Get(info, "year", "unknown"), Get(info, "month", "unknown")>>
        entry == [filename |-> info.filename, size |-> info.size,
                  upload_time |-> info.upload_time]
    IN  IF period \in DOMAIN by_period
        THEN [by_period EXCEPT ![period] = Append(@, entry)]
        ELSE by_period @@ (period :> <<entry>>)

\* the keys of a ledger in the order .items() yields them
RECURSIVE Keys(_, _)
Keys(ledger, order) ==
    IF order = << >> THEN << >>
    ELSE IF Head(order) \in DOMAIN ledger
         THEN <<Head(order)>> \o Keys(ledger, Tail(order))
         ELSE Keys(ledger, Tail(order))

\* lines 310-325: the loop over the records
RECURSIVE ByPeriod(_, _)
ByPeriod(ledger, keys) ==
    IF keys = << >> THEN << >>
    ELSE AddToPeriod(ByPeriod(ledger, SubSeq(keys, 1, Len(keys) - 1)),
                     ledger[keys[Len(keys)]])

\* info['filename'], info['size'] or info['upload_time'] raises KeyError
StatusRaises(ledger) ==
    \E f \in DOMAIN ledger :
        ~({"filename", "size", "upload_time"} \subseteq DOMAIN ledger[f])

\* get_upload_status, lines 300-330
GetUploadStatusReturn(ledger) ==
    IF StatusRaises(ledger)
    THEN [kind |-> "status", raised |-> TRUE]
    ELSE [kind |-> "status", raised |-> FALSE,
          total_uploaded |-> Cardinality(DOMAIN ledger),
          by_period |-> ByPeriod(ledger, Keys(ledger, ScanOrder)),
          uploaded_files |-> ledger]

GetUploadStatus ==
    /\ pc = "ready"
    /\ report' = GetUploadStatusReturn(uploaded_files)
    /\ UNCHANGED <<env, pc, uploaded_files, uploaded_files_type, upload_queue,
                   i, count, result, exit_status, mp, obs>>

\* lines 350-383, one pass of the loop: what the record of f adds to the
\* counters.  head is the outcome of head_object when the object exists.
\* A record without s3_key raises KeyError inside the inner try; its handler
\* (line 375) reads info['s3_key'] again for its message, raises again, and
\* the outer handler (line 379) counts the record a second time.
Classify(info, f, disk_now, remote_now, head) ==
    LET none == [valid |-> 0, invalid |-> 0, missing |-> 0]
    IN  CASE disk_now[f] = NoFile -> [none EXCEPT !.missing = 1]
          [] disk_now[f] # NoFile /\ "s3_key" \notin DOMAIN info ->
                 [none EXCEPT !.invalid = 2]
          [] disk_now[f] # NoFile /\ "s3_key" \in DOMAIN info
                 /\ (head = "raises" \/ remote_now[f] = NoObject) ->
                 [none EXCEPT !.invalid = 1]
          [] OTHER ->
                 IF disk_now[f] = remote_now[f]
                 THEN [none EXCEPT !.valid = 1]
                 ELSE [none EXCEPT !.invalid = 1]

RECURSIVE Tally(_, _, _, _, _)
Tally(ledger, keys, disk_now, remote_now, heads) ==
    IF keys = << >> THEN [valid |-> 0, invalid |-> 0, missing |-> 0]
    ELSE LET f == Head(keys)
             c == Classify(ledger[f], f, disk_now, remote_now, heads[f])
             t == Tally(ledger, Tail(keys), disk_now, remote_now, heads)
         IN  [valid |-> c.valid + t.valid, invalid |-> c.invalid + t.invalid,
              missing |-> c.missing + t.missing]

\* validate_uploaded_files, lines 332-387
ValidateUploadedFiles(heads) ==
    /\ pc = "ready"
    /\ LET t == Tally(uploaded_files, Keys(uploaded_files, ScanOrder), disk,
                      remote, heads)
       IN  report' = [kind |-> "validation",
                      total |-> Cardinality(DOMAIN uploaded_files),
                      valid |-> t.valid, invalid |-> t.invalid,
                      missing |-> t.missing]
    /\ UNCHANGED <<env, pc, uploaded_files, uploaded_files_type, upload_queue,
                   i, count, result, exit_status, mp, obs>>

\* an AISUploader that has loaded its ledger, local files that exist or not,
\* and a store that holds an object of either size or none
InitStatus ==
    /\ disk \in [Files -> {10 * MiB, NoFile}]
    /\ remote \in [Files -> {10 * MiB, 5 * MiB, NoObject}]
    /\ uploaded_files \in StatusLedgers
    /\ progress_file = LedgerFile(uploaded_files)
    /\ session = NoSession
    /\ part_size_mb = DefaultPartSizeMB
    /\ max_concurrent_parts = DefaultMaxConcurrentParts
    /\ pc = "ready" /\ uploaded_files_type = "dict" /\ upload_queue = << >>
    /\ i = 0 /\ count = ZeroCount /\ result = NoResult
    /\ exit_status = NoExit /\ report = NoReport
    /\ MpIdle /\ ObsInit

NextStatus ==
    \/ GetUploadStatus
    \/ \E heads \in [Files -> {"ok", "raises"}] : ValidateUploadedFiles(heads)

SpecStatus == InitStatus /\ [][NextStatus]_vars

TypeOK ==
    /\ pc \in {"down", "ready", "loop", "upload", "multipart", "plan"}
    /\ phase \in {"none", "collect", "exit_return", "exit_raise",
                 "exit_interrupt"}
    /\ DOMAIN uploaded_files \subseteq Files
    /\ run \in 0..MaxRuns

----------------------------------------------------------------------------
(* Properties *)

Last(seq) == seq[Len(seq)]

\* this step ends a loop iteration with the given outcome
Ends(kind) ==
    /\ Len(outcomes') = Len(outcomes) + 1
    /\ Last(outcomes').outcome = kind

CountOf(kind) ==
    Cardinality({k \in DOMAIN outcomes : outcomes[k].outcome = kind})

\* the ledger holds a record for f whose size is not the size f has now
Drifted(f) ==
    /\ f \in DOMAIN uploaded_files
    /\ disk[f] # NoFile
    /\ disk[f] # uploaded_files[f].size

\* the files _get_upload_queue found pending, before the max_files limit
Pending == candidates \ filtered

RECURSIVE SumOfLengths(_, _)
SumOfLengths(fs, n) ==
    IF n = 0 THEN 0
    ELSE (fs[n].end_byte - fs[n].start_byte) + SumOfLengths(fs, n - 1)

\* C1: the Parts list sent in a complete_multipart_upload request is strictly
\* ascending by PartNumber: 1, 2, ..., N, whatever the order in which the part
\* transfers completed.
C1_FinalizeAscending ==
    session.completes > 0 =>
        \A k \in DOMAIN session.Parts : session.Parts[k].PartNumber = k

\* C2: when _multipart_upload returns and a part transfer of the session
\* failed, an abort request was issued for the session, no complete request
\* was, and the file is reported failed.
C2_AbortOnPartFailure ==
    [][ ( /\ pc = "multipart"
          /\ pc' \notin {"multipart", "down"}
          /\ \E k \in DOMAIN futures : futures[k].state = "failed" )
        => ( /\ session'.aborts >= 1
             /\ session'.completes = 0
             /\ outcomes' = Append(outcomes,
                                   [filepath |-> upload_queue[i].filepath,
                                    outcome |-> "failed"]) ) ]_vars

\* a multipart transfer has returned after a part failure: aborted, never
\* completed, the file counted failed
C2_Witness ==
    /\ pc \in {"loop", "ready"}
    /\ session.state = "aborted" /\ session.aborts >= 1
    /\ session.completes = 0
    /\ outcomes # << >> /\ Last(outcomes).outcome = "failed"

\* C3: while a file is being transferred and when its transfer fails, the
\* ledger stays as it was, in memory and on disk; only the step that ends the
\* file as uploaded writes it.
C3_FailureLeavesLedger ==
    [][ ( /\ pc \in {"upload", "multipart"}
          /\ pc' # "down"
          /\ ~Ends("uploaded") )
        => ( /\ uploaded_files' = uploaded_files
             /\ progress_file' = progress_file ) ]_vars

\* a file that had a record failed in this run, and its earlier record is
\* still there, in memory and on disk
C3_Witness ==
    \E k \in DOMAIN outcomes :
        LET f == outcomes[k].filepath
        IN  /\ outcomes[k].outcome = "failed"
            /\ f \in sent
            /\ f \in DOMAIN uploaded_files
            /\ progress_file.state = "ok"
            /\ f \in DOMAIN progress_file.data
            /\ progress_file.data[f] = uploaded_files[f]

\* C4: every file _mark_file_uploaded ran for in this run is a file whose
\* object the store had acknowledged as committed in this run.
C4_RecordOnlyAfterAck ==
    /\ written \subseteq acked
    /\ \A f \in written : remote[f] # NoObject

\* a record has been written, after the acknowledgement
C4_Witness ==
    \E f \in written : f \in acked /\ f \in DOMAIN uploaded_files

\* C5: a transfer request is never issued for a file whose object an earlier
\* run committed and whose local file has not changed since.
C5_NeverTransferredAgain ==
    [][ \A f \in Files :
          (f \notin sent /\ f \in sent')
              => ~(remote[f] # NoObject /\ ~changed[f]) ]_vars

\* C6: in a second or later run, when no local file ever changed and every
\* earlier run went through its whole pending list (no max_files cut) with no
\* failure, no transfer request is issued, uploaded is 0 and skipped equals
\* total_files.
C6_Idempotent ==
    (run >= 2 /\ priorClean /\ changes = 0)
        => ( /\ sent = {}
             /\ (pc = "ready" /\ result.returned)
                    => ( /\ result.uploaded = 0
                         /\ result.skipped = result.total_files ) )

\* the second run has returned after finding every file in the ledger
C6_Witness ==
    /\ run = 2 /\ priorClean /\ changes = 0
    /\ pc = "ready" /\ result.returned
    /\ filtered = Files
    /\ \A f \in Files : remote[f] = disk[f]

\* C7: in the returned result total_files counts every candidate the scan
\* produced and skipped counts every candidate the ledger reported uploaded
\* and unchanged.
C7_CountsEveryCandidate ==
    (pc = "ready" /\ result.returned)
        => ( /\ result.total_files = Cardinality(candidates)
             /\ result.skipped = Cardinality(filtered) + CountOf("skipped") )

\* C8: a file whose size differs from the size in its record is put in the
\* pending list by the next run, is never skipped, is transferred when the
\* loop reaches it, and the loop of a run that was not cut by max_files
\* reaches every pending file.
C8_DriftReattempted ==
    /\ [][ run' = run + 1 => \A f \in Files : Drifted(f) => f \in Pending' ]_vars
    /\ [][ Ends("skipped") => ~Drifted(upload_queue[i].filepath) ]_vars
    /\ [][ ( /\ pc = "upload"
             /\ pc' \notin {"upload", "down"}
             /\ Drifted(upload_queue[i].filepath) )
           => upload_queue[i].filepath \in sent' ]_vars
    /\ [] ( ( /\ pc = "ready" /\ result.returned
              /\ Len(upload_queue) = Cardinality(Pending) )
            => {outcomes[k].filepath : k \in DOMAIN outcomes} = Pending )

\* a file recorded by an earlier run, whose size has changed since, was found
\* pending by this run and a transfer request went out for it
C8_Witness ==
    \E f \in sent \ written :
        /\ Drifted(f)
        /\ remote[f] = uploaded_files[f].size
        /\ f \in Pending

\* C9: a failed file does not end the run: the loop goes on with the next
\* file, and when upload_all_files returns every file of the queue has been
\* attempted in queue order, each uploaded one has its record, and failed is
\* the number of files that failed.
C9_FailureIsolated ==
    /\ [][ (Ends("failed") /\ i < Len(upload_queue))
           => (pc' = "loop" /\ i' = i + 1 /\ upload_queue' = upload_queue) ]_vars
    /\ [] ( (pc = "ready" /\ result.returned /\ upload_queue # << >>)
            => ( /\ Len(outcomes) = Len(upload_queue)
                 /\ \A k \in DOMAIN outcomes :
                       /\ outcomes[k].filepath = upload_queue[k].filepath
                       /\ outcomes[k].outcome = "uploaded"
                             => outcomes[k].filepath \in DOMAIN uploaded_files
                 /\ result.total_files = Len(upload_queue)
                 /\ result.failed = CountOf("failed")
                 /\ result.uploaded = CountOf("uploaded") ) )

\* a run returned in which a file failed and a later file was transferred and
\* recorded
C9_Witness ==
    /\ pc = "ready" /\ result.returned
    /\ \E j, k \in DOMAIN outcomes :
          /\ j < k
          /\ outcomes[j].outcome = "failed"
          /\ outcomes[k].outcome = "uploaded"
          /\ outcomes[k].filepath \in written
          /\ outcomes[k].filepath \in DOMAIN uploaded_files
    /\ result.failed = 1 /\ result.uploaded = 1

\* C10: the parts submitted for a file of F bytes under a part size of P
\* bytes are numbered 1..N with N = ceil(F/P); part k covers
\* [(k-1)*P, min(k*P, F)); the ranges are contiguous, cover [0, F), are not
\* empty, all but the last have length P, and the lengths sum to F.
C10_PartPlan ==
    pc = "multipart" =>
        LET F == file_size
            P == PartSize(part_size_mb)
            N == Len(futures)
        IN  /\ N >= 1
            /\ (N - 1) * P < F /\ F <= N * P
            /\ DOMAIN futures = 1..N
            /\ \A k \in 1..N :
                  /\ futures[k].part_num = k
                  /\ futures[k].start_byte = (k - 1) * P
                  /\ futures[k].end_byte = (IF k * P < F THEN k * P ELSE F)
                  /\ futures[k].start_byte < futures[k].end_byte
                  /\ k < N => futures[k].end_byte - futures[k].start_byte = P
                  /\ k < N => futures[k + 1].start_byte = futures[k].end_byte
            /\ futures[1].start_byte = 0
            /\ futures[N].end_byte = F
            /\ SumOfLengths(futures, N) = F

\* 350 MiB under 100 MiB parts: parts 1..4 of 100, 100, 100 and 50 MiB
C10_Witness ==
    /\ pc = "multipart"
    /\ file_size = 350 * MiB /\ part_size_mb = 100
    /\ Len(futures) = 4
    /\ [k \in 1..4 |-> futures[k].end_byte - futures[k].start_byte]
          = <<100 * MiB, 100 * MiB, 100 * MiB, 50 * MiB>>

\* the ledger in memory holds a record for f, f exists, and the size in the
\* record is the size f has on disk
HasMatchingRecord(f) ==
    /\ f \in DOMAIN uploaded_files
    /\ disk[f] # NoFile
    /\ uploaded_files[f].size = disk[f]

\* C11: _is_file_uploaded answers True exactly for a file that has a record
\* whose size is the file's current size on disk, at each of its three call
\* sites: the filter of _get_upload_queue leaves out exactly those files, the
\* loop skips exactly those, and upload_file returns without a transfer for
\* those; with no record, another size or a deleted file the answer is False.
C11_IsFileUploaded ==
    /\ [][ run' = run + 1
              => filtered' = {f \in candidates' : HasMatchingRecord(f)} ]_vars
    /\ [][ (pc = "loop" /\ pc' # "down" /\ disk' = disk)
              => (Ends("skipped")
                    <=> HasMatchingRecord(upload_queue[i].filepath)) ]_vars
    /\ [][ (pc = "upload" /\ pc' \notin {"upload", "down"})
              => ( (upload_queue[i].filepath \notin sent')
                     <=> ( \/ HasMatchingRecord(upload_queue[i].filepath)
                           \/ disk[upload_queue[i].filepath] = NoFile ) ) ]_vars

\* the filter found one file uploaded and unchanged; the other file, which
\* has a record too, was deleted after the scan: the loop did not skip it and
\* upload_file reported it missing
C11_Witness ==
    /\ filtered # {}
    /\ \E k \in DOMAIN outcomes :
          LET f == outcomes[k].filepath
          IN  /\ outcomes[k].outcome = "failed"
              /\ f \in DOMAIN uploaded_files
              /\ disk[f] = NoFile
              /\ f \notin sent

\* C12: a save replaces the ledger file atomically: after any step that
\* touches the file, crash and I/O failure included, loading the file gives
\* the ledger it gave before, or a complete new ledger that still has every
\* record the file held before.
C12_AtomicSave ==
    [][ progress_file' # progress_file
          => \/ LoadUploadProgress(progress_file')
                   = LoadUploadProgress(progress_file)
             \/ /\ progress_file'.state = "ok"
                /\ DOMAIN LoadUploadProgress(progress_file)
                       \subseteq DOMAIN progress_file'.data ]_vars

\* this step ran _mark_file_uploaded for the file of the current iteration
Records == written' \ written # {} /\ pc' # "down"

\* C13: when the save fails while a file is recorded, the record stays in
\* memory, the file is counted uploaded and the loop goes on with the next
\* file; and every save that succeeds leaves in the file the records of all
\* the files recorded so far in the run, those whose own save failed included.
C13_SaveFailureKeepsRecord ==
    /\ [][ (Records /\ progress_file' # LedgerFile(uploaded_files'))
              => LET d == upload_queue[i]
                 IN  /\ d.filepath \in DOMAIN uploaded_files'
                     /\ uploaded_files'[d.filepath].size = d.size
                     /\ Ends("uploaded")
                     /\ i < Len(upload_queue) => (pc' = "loop" /\ i' = i + 1)
                     /\ i = Len(upload_queue) => result'.returned ]_vars
    /\ [][ (Records /\ progress_file' # progress_file
                    /\ progress_file'.state = "ok")
              => \A a \in written' :
                    /\ a \in DOMAIN progress_file'.data
                    /\ progress_file'.data[a] = uploaded_files'[a] ]_vars

\* both files of a run were uploaded; the save of the first one failed, the
\* save of the second one succeeded and the file holds both records
C13_Witness ==
    /\ run = 1 /\ Len(upload_queue) = 2 /\ ~clean
    /\ Len(outcomes) = 2
    /\ \A k \in DOMAIN outcomes : outcomes[k].outcome = "uploaded"
    /\ written = Files
    /\ DOMAIN uploaded_files = Files
    /\ progress_file = LedgerFile(uploaded_files)

\* C14: a process that starts on a missing or corrupt ledger file (one that
\* cannot be parsed, or parses to something that is not a mapping) holds an
\* empty mapping after loading, treats every scanned file as pending, and
\* records every upload the store acknowledges from then on.
C14_LoadDegrades ==
    /\ [][ (pc = "down" /\ pc' = "ready" /\ progress_file.state # "ok")
              => ( /\ uploaded_files' = EmptyLedger
                   /\ uploaded_files_type' = "dict" ) ]_vars
    /\ [][ (run' = run + 1 /\ uploaded_files = EmptyLedger)
              => filtered' = {} ]_vars
    /\ [][ pc' # "down"
              => \A f \in acked' \ acked :
                    /\ f \in DOMAIN uploaded_files'
                    /\ f \in written'
                    /\ Ends("uploaded") ]_vars

\* the ledger file, or else the ledger in memory, reports f uploaded with the
\* size f has now
UploadedUnchanged(f) ==
    \/ HasMatchingRecord(f)
    \/ /\ progress_file.state = "ok"
       /\ IsFileUploaded(progress_file.data, [filepath |-> f], disk)

\* C20: when the loop comes to a file that is by then uploaded and unchanged,
\* through an upload of this process or of another one, no transfer request
\* is issued for it and it is not counted as uploaded.
C20_SkippedAtDispatch ==
    [][ (pc \in {"loop", "upload"}
           /\ UploadedUnchanged(upload_queue[i].filepath))
          => ( /\ upload_queue[i].filepath \notin (sent' \ sent)
               /\ ~Ends("uploaded") ) ]_vars

\* C15: once a part failure has been observed (the abort request is out and
\* the collection has stopped), no part that was still waiting for a worker
\* is started.
C15_NoStartAfterFailure ==
    [][ (pc = "multipart" /\ phase # "collect" /\ session.aborts >= 1)
          => \A k \in Queued :
                k \in DOMAIN futures' => futures'[k].state = "queued" ]_vars

\* C16: at most max_concurrent_parts part transfers are in flight.
C16_BoundedInFlight ==
    Cardinality(Running) <= max_concurrent_parts

\* the pool is full and further parts wait for a worker
C16_Witness ==
    /\ pc = "multipart"
    /\ max_concurrent_parts >= 2
    /\ Cardinality(Running) = max_concurrent_parts
    /\ Queued # {}

\* C17: when _multipart_upload returns, no part of the file is running or
\* waiting to run, also after a part failure; and outside _multipart_upload
\* no abort or complete request is issued: the requests recorded for the
\* finished file stay as they are until the next file's first request.
C17_OneFileAtATime ==
    /\ [][ (pc = "multipart" /\ pc' \notin {"multipart", "down"})
              => (Running = {} /\ Queued = {}) ]_vars
    /\ [][ (pc # "multipart" /\ session' # session)
              => ( /\ session'.aborts = 0 /\ session'.completes = 0
                   /\ session'.Parts = << >> ) ]_vars

\* the first file's session was aborted after a part failure, all its parts
\* have run, and the loop is at the second file
C17_Witness ==
    /\ pc = "loop" /\ i = 2 /\ Len(upload_queue) = 2
    /\ outcomes = <<[filepath |-> upload_queue[1].filepath,
                     outcome |-> "failed"]>>
    /\ session.creates = 1 /\ session.aborts >= 1 /\ session.completes = 0

\* C18: a file that exists and is not reported uploaded is sent by exactly
\* one request path: one direct PUT and no multipart session when its size is
\* at most 104857600 bytes, one multipart session and no PUT when it is larger.
C18_PathBySize ==
    /\ [][ (pc = "upload" /\ pc' # "upload" /\ session' # session)
              => LET size == disk[upload_queue[i].filepath]
                 IN  /\ size <= 104857600
                           => (session'.puts = 1 /\ session'.creates = 0)
                     /\ size > 104857600
                           => (session'.puts = 0 /\ session'.creates = 1) ]_vars
    /\ [][ (pc = "upload" /\ pc' \notin {"upload", "down"}
                /\ disk[upload_queue[i].filepath] # NoFile
                /\ ~HasMatchingRecord(upload_queue[i].filepath))
              => session'.puts + session'.creates = 1 ]_vars
    /\ [] (session.puts + session.creates <= 1)

\* a file of exactly 100 MiB has gone out by one PUT, with no session
C18_Witness ==
    /\ pc \in {"loop", "ready"}
    /\ outcomes # << >>
    /\ disk[Last(outcomes).filepath] = 104857600
    /\ Last(outcomes).filepath \in acked
    /\ session.puts = 1 /\ session.creates = 0

\* the pending files of the scan just made, in scan order
PendingInScanOrder == SelectSeq(ScanOrder, LAMBDA f : f \in Pending)

\* C19: a call upload_all_files(max_files = N) with N >= 0 leaves at most N
\* files in its queue, the first ones of the pending list in scan order;
\* total_files is the length of that queue and no transfer request is issued
\* for a file outside it.
C19_MaxFilesLimit ==
    /\ [][ \A N \in LimitChoices \ {NoLimit} :
              UploadAllFiles(N)
                => ( /\ Len(upload_queue') <= N
                     /\ \A k \in DOMAIN upload_queue' :
                           upload_queue'[k].filepath = PendingInScanOrder'[k] )
       ]_vars
    /\ [] ( (pc \in {"loop", "upload", "multipart"} \/ result.returned)
              => sent \subseteq {upload_queue[k].filepath :
                                    k \in DOMAIN upload_queue} )
    /\ [] ( (pc = "ready" /\ result.returned)
              => result.total_files = Len(upload_queue) )

\* C21: in the returned result uploaded + failed + skipped = total_files,
\* uploaded is the number of files whose object the store committed in this
\* run, failed is the number of files that ended as failed, and no file
\* counted failed was committed.
C21_ExactCounters ==
    (pc = "ready" /\ result.returned)
        => ( /\ result.uploaded + result.failed + result.skipped
                    = result.total_files
             /\ result.uploaded = Cardinality(acked)
             /\ result.failed = CountOf("failed")
             /\ \A k \in DOMAIN outcomes :
                   outcomes[k].outcome = "failed"
                       => outcomes[k].filepath \notin acked )

\* C22: when the process stops after an interrupt that arrived during a
\* multipart transfer, a complete or an abort request has been made for the
\* session; and after the interrupt no transfer request is issued for any
\* further file.
C22_InterruptResolvesSession ==
    /\ [][ (phase = "exit_interrupt" /\ pc' = "down")
              => (session.completes >= 1 \/ session.aborts >= 1) ]_vars
    /\ [][ phase = "exit_interrupt" => sent' \subseteq sent ]_vars

\* the ledger, in memory and on disk, and the objects in the store stay as
\* they are in this step
LedgerUntouched ==
    /\ uploaded_files' = uploaded_files
    /\ progress_file' = progress_file
    /\ remote' = remote

\* the loop goes on: to the next file, or to the return of the counters
LoopGoesOn ==
    /\ i < Len(upload_queue) => (pc' = "loop" /\ i' = i + 1)
    /\ i = Len(upload_queue) => (pc' = "ready" /\ result'.returned)

\* C23: when create_multipart_upload fails, no part is submitted, no abort
\* and no complete request is sent, the file is counted failed, the ledger is
\* untouched and the loop goes on.
C23_CreateFailure ==
    [][ (pc = "upload" /\ session'.creates = 1 /\ session'.state = "none")
          => ( /\ futures' = << >>
               /\ session'.aborts = 0 /\ session'.completes = 0
               /\ Ends("failed")
               /\ LedgerUntouched
               /\ LoopGoesOn ) ]_vars

\* a create request failed: no session, no further request, the file failed
C23_Witness ==
    /\ pc \in {"loop", "ready"}
    /\ session.creates = 1 /\ session.state = "none"
    /\ session.aborts = 0 /\ session.completes = 0
    /\ outcomes # << >> /\ Last(outcomes).outcome = "failed"
    /\ Last(outcomes).filepath \in sent

\* C24: when complete_multipart_upload fails, an abort request follows in the
\* same call, the file is counted failed, the ledger is untouched and the
\* loop goes on.
C24_CompleteFailure ==
    [][ ( /\ pc = "multipart"
          /\ session'.completes = session.completes + 1
          /\ session'.state # "completed" )
          => ( /\ session'.aborts = session.aborts + 1
               /\ Ends("failed")
               /\ LedgerUntouched
               /\ LoopGoesOn ) ]_vars

\* the first file's parts all succeeded, its complete request was rejected,
\* the session was aborted and the loop is at the second file
C24_Witness ==
    /\ pc = "loop" /\ i = 2
    /\ session.completes = 1 /\ session.aborts = 1
    /\ session.state = "aborted"
    /\ Len(session.Parts) >= 2
    /\ outcomes = <<[filepath |-> upload_queue[1].filepath,
                     outcome |-> "failed"]>>
    /\ uploaded_files = EmptyLedger

\* C25: when an abort request raises, after a part failure or after a failed
\* complete request, _multipart_upload still returns False: the file is
\* counted failed and the loop goes on.
C25_AbortFailure ==
    [][ ( /\ pc = "multipart" /\ pc' # "multipart"
          /\ \/ phase = "exit_raise"
             \/ session'.aborts > session.aborts /\ session'.state = "open" )
          => ( /\ Ends("failed")
               /\ LedgerUntouched
               /\ LoopGoesOn ) ]_vars

\* both abort requests of a session raised; the file failed, the session is
\* still open at the store and the loop has gone on
C25_Witness ==
    /\ pc \in {"loop", "ready"}
    /\ session.aborts = 2 /\ session.state = "open"
    /\ outcomes # << >> /\ Last(outcomes).outcome = "failed"

\* a setup check of the command fails: the base path is missing, the
\* connection test fails or raises, the bucket is absent or its check raises
SetupFails(baseOk, conn, bucket) ==
    ~baseOk \/ conn # "ok" \/ bucket # "exists"

\* C26: when a setup check of the upload command fails, the command is over
\* without a transfer request and without a write of the ledger.
C26_SetupFailureStops ==
    [][ \A baseOk \in BOOLEAN, conn \in ConnOutcomes, bucket \in BucketOutcomes :
           (SetupFails(baseOk, conn, bucket) /\ CliSetup(baseOk, conn, bucket))
               => ( /\ pc' = "down" /\ exit_status' # NoExit
                    /\ run' = run
                    /\ sent' = sent /\ session' = session
                    /\ remote' = remote
                    /\ progress_file' = progress_file ) ]_vars

\* a command has returned in a process that never called upload_all_files:
\* nothing was sent, the store and the ledger file are as they were
C26_Witness ==
    /\ exit_status # NoExit /\ pc = "down" /\ run = 0
    /\ sent = {} /\ session = NoSession
    /\ progress_file \in LedgerFiles
    /\ \A f \in Files : f \notin DOMAIN progress_file.data => remote[f] = NoObject

\* C27: the upload command ends with a non-zero status when a setup check
\* fails, and with status zero when it has run, whatever the files' outcomes.
C27_ExitStatus ==
    /\ [][ \A baseOk \in BOOLEAN, conn \in ConnOutcomes,
              bucket \in BucketOutcomes :
              (SetupFails(baseOk, conn, bucket) /\ CliSetup(baseOk, conn, bucket))
                  => exit_status' \notin {NoExit, 0} ]_vars
    /\ [][ CliExit => exit_status' = 0 ]_vars

\* C28: _multipart_upload called with file_size <= 0 fails on its input: it
\* makes no part plan, sends no request and reports failure.
C28_InvalidSizeRejected ==
    [][ (pc = "plan" /\ upload_queue[i].size <= 0)
          => ( /\ futures' = << >>
               /\ session' = NoSession
               /\ Ends("failed") ) ]_vars

\* C29: _mark_file_uploaded can be repeated for a path and the last call
\* wins: afterwards the ledger holds one record for the path, with the size
\* of the descriptor and the ETag read for this upload, the records of the
\* other paths are as before, and a save that succeeded has left the whole
\* in-memory ledger in the file.
C29_LastWriteWins ==
    [][ Records
          => LET d == upload_queue[i]
                 f == d.filepath
             IN  /\ DOMAIN uploaded_files' = DOMAIN uploaded_files \cup {f}
                 /\ uploaded_files'[f].size = d.size
                 /\ uploaded_files'[f].s3_etag \in {remote'[f], EmptyETag}
                 /\ \A g \in DOMAIN uploaded_files \ {f} :
                        uploaded_files'[g] = uploaded_files[g]
                 /\ (progress_file'.state = "ok"
                        /\ progress_file' # progress_file)
                       => progress_file'.data = uploaded_files' ]_vars

\* f1 was recorded in the first run, modified once, and recorded again in the
\* second run: its record holds the new size, the record of f2 is the one of
\* the first run, and the file holds both
C29_Witness ==
    /\ run = 2 /\ priorClean /\ changes = 1
    /\ written = {"f1"} /\ filtered = {"f2"}
    /\ DOMAIN uploaded_files = Files
    /\ uploaded_files["f1"].size = disk["f1"]
    /\ uploaded_files["f1"].size # InitDisk["f1"]
    /\ uploaded_files["f2"].size = InitDisk["f2"]
    /\ progress_file = LedgerFile(uploaded_files)

\* C30: the size stored in a record is the size of the object that was
\* transferred, also when the file changed between the scan and the transfer.
C30_RecordedSizeIsTransferred ==
    [][ Records
          => LET f == upload_queue[i].filepath
             IN  uploaded_files'[f].size = remote'[f] ]_vars

\* C31: every record written after a successful transfer carries the tag of
\* the object that transfer committed, never the empty tag.
C31_RecordCarriesTag ==
    [][ Records
          => LET f == upload_queue[i].filepath
             IN  /\ uploaded_files'[f].s3_etag # EmptyETag
                 /\ uploaded_files'[f].s3_etag = remote'[f] ]_vars

\* C32: complete_multipart_upload is requested only with receipts that hold
\* every part number 1..N exactly once, N the planned number of parts; a
\* session that ends otherwise ends without a complete request and the file
\* is reported failed.
C32_CompleteOnlyWithAllParts ==
    /\ [][ session'.completes > session.completes
              => LET N == NumParts(file_size, PartSize(part_size_mb))
                 IN  /\ N >= 1
                     /\ Len(session'.Parts) = N
                     /\ {session'.Parts[k].PartNumber : k \in 1..N} = 1..N ]_vars
    /\ [][ ( /\ pc = "multipart" /\ pc' # "multipart"
              /\ session'.completes = session.completes )
              => (session'.completes = 0 /\ Ends("failed")) ]_vars

\* a complete request went out with the four receipts of a file, collected
\* in another order than the part numbers
C32_Witness ==
    /\ session.completes = 1 /\ session.state = "completed"
    /\ Len(session.Parts) = 4
    /\ session.Parts[1].PartNumber # 1
    /\ {session.Parts[k].PartNumber : k \in 1..4} = 1..4

\* C33: within a session a part is transferred at most once: a part that
\* was started is never queued again, a part that finished keeps its outcome,
\* and the first failed part that is collected brings the abort request and
\* the end of the session with the file reported failed.
C33_NoPartRetry ==
    /\ [][ (pc = "multipart" /\ pc' = "multipart")
              => /\ DOMAIN futures' = DOMAIN futures
                 /\ \A k \in DOMAIN futures :
                       /\ futures[k].state # "queued"
                             => futures'[k].state # "queued"
                       /\ futures[k].state \in {"ok", "failed"}
                             => futures'[k] = futures[k] ]_vars
    /\ [][ ( /\ pc = "multipart" /\ phase = "collect"
              /\ \E k \in collected' \ collected : futures[k].state = "failed" )
              => ( /\ session'.aborts = session.aborts + 1
                   /\ phase' \in {"exit_return", "exit_raise"} ) ]_vars
    /\ [][ (phase \in {"exit_return", "exit_raise"} /\ pc' # "multipart")
              => ( /\ Ends("failed")
                   /\ session'.completes = 0
                   /\ \E k \in DOMAIN futures : futures[k].state = "failed" ) ]_vars

\* a part failed and was collected, the abort request went out, and the
\* session waits for its other parts; the failed part stays failed
C33_Witness ==
    /\ pc = "multipart" /\ phase = "exit_return"
    /\ session.aborts = 1 /\ session.state = "aborted"
    /\ \E k \in collected : futures[k].state = "failed"
    /\ \E k \in DOMAIN futures : futures[k].state = "ok"
    /\ Running # {}

\* C34: the ledger file is read at start-up only and written once for each
\* file that was committed and is counted uploaded, in the step that records
\* it: not while parts are transferred, not for a skipped or a failed file;
\* a write that finishes leaves the whole ledger in the file.
C34_LedgerFileAccess ==
    /\ [][ progress_file' # progress_file
              => /\ pc \in {"upload", "multipart"} /\ pc' # "multipart"
                 /\ written' \ written = {upload_queue[i].filepath}
                 /\ acked' \ acked = {upload_queue[i].filepath} ]_vars
    /\ [][ (Ends("uploaded") /\ acked' # acked)
              => written' \ written = {upload_queue[i].filepath} ]_vars
    /\ [][ (Ends("skipped") \/ Ends("failed"))
              => (progress_file' = progress_file /\ written' = written) ]_vars
    /\ [][ (progress_file' # progress_file /\ progress_file'.state = "ok")
              => progress_file'.data = uploaded_files' ]_vars
    /\ [][ (pc # "down" /\ pc' # "down" /\ uploaded_files' # uploaded_files)
              => written' # written ]_vars

\* the second run has skipped one file at the loop's look-up and uploaded f2
\* by multipart: one write, for f2, and the file holds what the memory holds
C34_Witness ==
    /\ run = 2 /\ pc = "ready" /\ result.returned
    /\ written = {"f2"} /\ acked = {"f2"}
    /\ CountOf("skipped") = 1
    /\ UsesMultipart(remote["f2"])
    /\ progress_file = LedgerFile(uploaded_files)
    /\ DOMAIN uploaded_files = Files

\* upload_all_files has returned, with one outcome per file of its queue, in
\* queue order
AllResolved ==
    /\ pc = "ready" /\ result.returned
    /\ Len(outcomes) = Len(upload_queue)
    /\ \A k \in DOMAIN outcomes :
          /\ outcomes[k].filepath = upload_queue[k].filepath
          /\ outcomes[k].outcome \in {"uploaded", "failed", "skipped"}
    /\ result.uploaded + result.failed + result.skipped = Len(upload_queue)

\* C35: when every request returns, every multipart session comes to its
\* end, committed with the file uploaded or given up with the file failed,
\* and upload_all_files returns with every file of its queue resolved once.
C35_Terminates ==
    /\ \A n \in 1..Cardinality(Files) :
          (pc = "multipart" /\ i = n)
              ~> ( /\ Len(outcomes) >= n
                   /\ \/ outcomes[n].outcome = "uploaded"
                         /\ upload_queue[n].filepath \in acked
                      \/ outcomes[n].outcome = "failed"
                         /\ upload_queue[n].filepath \notin acked )
    /\ <>[]AllResolved

\* the run has returned: the first file failed in a session whose abort
\* request went out, the second one was committed by its session
C35_Witness ==
    /\ AllResolved
    /\ outcomes[1].outcome = "failed" /\ outcomes[2].outcome = "uploaded"
    /\ UsesMultipart(disk[upload_queue[1].filepath])
    /\ session.state = "completed" /\ Len(session.Parts) >= 2

\* the places of by_period, period and position, that hold an entry for f
PlacesOf(by_period, f) ==
    {pk \in UNION {{<<period, k>> : k \in DOMAIN by_period[period]} :
                      period \in DOMAIN by_period} :
        by_period[pk[1]][pk[2]].filename = f}

\* C36: get_upload_status changes nothing; on a ledger whose records hold
\* the fields of an entry it returns the number of records as total_uploaded,
\* the ledger itself, and a by_period in which every record has one entry,
\* under the year and the month of the record, and nothing else.
C36_StatusReadOnly ==
    /\ []( (report.kind = "status" /\ ~StatusRaises(uploaded_files))
             => /\ ~report.raised
                /\ report.total_uploaded = Cardinality(DOMAIN uploaded_files)
                /\ report.uploaded_files = uploaded_files
                /\ \A f \in DOMAIN uploaded_files :
                      LET info == uploaded_files[f]
                          own == <<Get(info, "year", "unknown"),
                                   Get(info, "month", "unknown")>>
                      IN  /\ Cardinality(PlacesOf(report.by_period, f)) = 1
                          /\ \A pk \in PlacesOf(report.by_period, f) :
                                /\ pk[1] = own
                                /\ report.by_period[pk[1]][pk[2]].size = info.size
                /\ \A period \in DOMAIN report.by_period :
                      \A k \in DOMAIN report.by_period[period] :
                          report.by_period[period][k].filename
                              \in DOMAIN uploaded_files )
    /\ [][ GetUploadStatus
              => /\ uploaded_files' = uploaded_files
                 /\ progress_file' = progress_file
                 /\ remote' = remote /\ disk' = disk ]_vars

\* the status of a ledger with two records of the same month: one period
\* with two entries
C36_Witness ==
    /\ report.kind = "status" /\ ~report.raised
    /\ report.total_uploaded = 2
    /\ DOMAIN report.by_period = {<<"2024", "02">>}
    /\ Len(report.by_period[<<"2024", "02">>]) = 2
    /\ progress_file = LedgerFile(uploaded_files)

\* C39: validate_uploaded_files counts every record once: valid + invalid +
\* missing is the number of records, whatever the records hold, and neither
\* the ledger nor the store is modified.
C39_ValidationCountsOnce ==
    /\ []( report.kind = "validation"
             => /\ report.total = Cardinality(DOMAIN uploaded_files)
                /\ report.valid + report.invalid + report.missing = report.total )
    /\ [][ (\E heads \in [Files -> {"ok", "raises"}] :
                 ValidateUploadedFiles(heads))
              => /\ uploaded_files' = uploaded_files
                 /\ progress_file' = progress_file
                 /\ remote' = remote ]_vars

\* C37: when progress_callback raises while a receipt is collected, the
\* abort request is sent as for a failed part, and the session ends with the
\* file reported failed, without a complete request and without a record,
\* also when every part was transferred.
C37_CallbackFailureAborts ==
    /\ [][ \A k \in DOMAIN futures, abortOk \in BOOLEAN :
              CollectCallbackRaises(k, abortOk)
                  => ( /\ session'.aborts = session.aborts + 1
                       /\ phase' \in {"exit_return", "exit_raise"} ) ]_vars
    /\ [][ (phase \in {"exit_return", "exit_raise"} /\ pc' # "multipart")
              => ( /\ Ends("failed")
                   /\ session'.completes = 0
                   /\ LedgerUntouched
                   /\ LoopGoesOn ) ]_vars

\* every part of the file was transferred and every receipt collected; the
\* callback raised at the last one and the session was aborted
C37_Witness ==
    /\ pc = "multipart" /\ phase = "exit_return"
    /\ \A k \in DOMAIN futures : futures[k].state = "ok"
    /\ Len(parts) = Cardinality(DOMAIN futures) /\ Len(parts) >= 2
    /\ session.state = "aborted" /\ session.aborts = 1

====
